---- MODULE Spec2Model ----
(***************************************************************************)
(* Model of run.py: the phone-number normaliser clean_phone_number, the    *)
(* per-file pass process_csv_file and the batch loop of main.              *)
(*                                                                         *)
(* Text is a sequence of characters, each character a string.  The one     *)
(* multi-letter token "u0663" stands for the single code point U+0663      *)
(* (ARABIC-INDIC DIGIT THREE), "\t" for a tab.                             *)
(***************************************************************************)
EXTENDS Integers, Sequences, FiniteSets, TLC

VARIABLES
    raw_phone,   \* the argument of the clean_phone_number call under study
    result,      \* what that call returned (Pending before the call)
    disk,        \* the stored content of every CSV file, by file number
    csv_files,   \* main's list of discovered files
    pc,          \* main's position: "idle" | "start" | "loop" | "done"
    idx,         \* index into csv_files of the next file to process
    attempts,    \* history: file id -> calls of process_csv_file in this run
    outcome,     \* history: file id -> how the last call on it ended
    writeFails,  \* environment: the files whose to_csv raises
    second       \* TRUE in the second run of the program over the same files

vars == <<raw_phone, result, disk, csv_files, pc, idx, attempts, outcome,
          writeFails, second>>

batchVars == <<disk, csv_files, pc, idx, attempts, outcome, writeFails,
               second>>

-----------------------------------------------------------------------------
(* Bounds of the model.                                                    *)

MaxLocal == 11
MaxFiles == 2
MaxRows == 2

-----------------------------------------------------------------------------
(* Characters and text.                                                    *)

AsciiDigits == {"0", "1", "2", "3", "4", "5", "6", "7", "8", "9"}

\* Code points outside ASCII of Unicode category Nd.
UnicodeDigits == {"u0663"}

\* What str.strip() removes.
Whitespace == {" ", "\t"}

\* The separator " ::: " of multi-number fields.
Separator == <<" ", ":", ":", ":", " ">>

\* Python's re: in a str pattern \d is any Unicode decimal digit, and \D
\* is its complement.
IsNonDigit(c) == c \notin (AsciiDigits \cup UnicodeDigits)

KeepDigit(c) == ~IsNonDigit(c)

\* re.sub(r'\D', '', s)
ExtractDigits(s) == SelectSeq(s, KeepDigit)

\* s.strip()
Strip(s) ==
    LET keep == {i \in 1..Len(s) : s[i] \notin Whitespace}
    IN  IF keep = {} THEN <<>>
        ELSE LET lo == CHOOSE i \in keep : \A j \in keep : i <= j
                 hi == CHOOSE i \in keep : \A j \in keep : j <= i
             IN  SubSeq(s, lo, hi)

\* The positions at which sep occurs in s.
Occurrences(s, sep) ==
    {i \in 1..(Len(s) - Len(sep) + 1) : SubSeq(s, i, i + Len(sep) - 1) = sep}

\* sep in s
Contains(s, sep) == Occurrences(s, sep) # {}

\* s.split(sep)[-1]: the text after the last occurrence.
FirstPart_Last(s, sep) ==
    LET occ == Occurrences(s, sep)
        k   == CHOOSE i \in occ : \A j \in occ : j <= i
    IN  SubSeq(s, k + Len(sep), Len(s))

\* s.split(sep)[0]: the text before the first occurrence.
FirstPart(s, sep) ==
    LET occ == Occurrences(s, sep)
        k   == CHOOSE i \in occ : \A j \in occ : i <= j
    IN  SubSeq(s, 1, k - 1)

\* digits.startswith(p)
StartsWith(s, p) == Len(s) >= Len(p) /\ SubSeq(s, 1, Len(p)) = p

-----------------------------------------------------------------------------
(* Values a phone field can hold.                                          *)

None == [kind |-> "none"]
NaN == [kind |-> "nan"]
Number(n) == [kind |-> "int", value |-> n]
Text(s) == [kind |-> "str", text |-> s]

\* pd.isna(x) or not isinstance(x, str) or x.strip() == ""
IsEmptyValue_NoStrip(x) ==
    \/ x.kind \in {"none", "nan"}
    \/ x.kind # "str"
    \/ x.text = <<>>

IsEmptyValue(x) ==
    \/ x.kind \in {"none", "nan"}
    \/ x.kind # "str"
    \/ Strip(x.text) = <<>>

NoteEmpty == "Empty phone value"

\* f"Unexpected normalized length: {len(digits)} digits."
NoteLength(n) == "Unexpected normalized length: " \o ToString(n) \o " digits."

\* Lines 33-37: keep the first of several numbers.
FirstNumber_LastWins(s) ==
    IF Contains(s, Separator) THEN Strip(FirstPart_Last(s, Separator)) ELSE s

FirstNumber(s) ==
    IF Contains(s, Separator) THEN Strip(FirstPart(s, Separator)) ELSE s

\* Lines 43-54: the length/prefix rules, first match wins.
TrimRules_KeepFirst(digits) ==
    IF Len(digits) = 12 /\ StartsWith(digits, <<"9", "1">>)
        THEN SubSeq(digits, 3, Len(digits))
    ELSE IF Len(digits) = 11 /\ StartsWith(digits, <<"0">>)
        THEN SubSeq(digits, 2, Len(digits))
    ELSE IF Len(digits) > 10
        THEN SubSeq(digits, 1, 10)
    ELSE digits

TrimRules(digits) ==
    IF Len(digits) = 12 /\ StartsWith(digits, <<"9", "1">>)
        THEN SubSeq(digits, 3, Len(digits))
    ELSE IF Len(digits) = 11 /\ StartsWith(digits, <<"0">>)
        THEN SubSeq(digits, 2, Len(digits))
    ELSE IF Len(digits) > 10
        THEN SubSeq(digits, Len(digits) - 9, Len(digits))
    ELSE digits

clean_phone_number(raw) ==
    IF IsEmptyValue(raw)
        THEN [digits |-> <<>>, note |-> NoteEmpty]
    ELSE LET digits == TrimRules(ExtractDigits(FirstNumber(raw.text)))
         IN  [digits |-> digits,
              note   |-> IF Len(digits) # 10 THEN NoteLength(Len(digits))
                         ELSE ""]

-----------------------------------------------------------------------------
(* The inputs of the normaliser that the model enumerates.                 *)

DigitChar == <<"0", "1", "2", "3", "4", "5", "6", "7", "8", "9">>

\* 9 8 7 6 5 4 3 2 1 0 9 8 ...
Local(n) == [i \in 1..n |-> DigitChar[((10 - (i % 10)) % 10) + 1]]

HeadChars == {"0", "1", "9"}

Heads == {<<>>} \cup {<<a>> : a \in HeadChars}
                \cup {<<a, b>> : a \in HeadChars, b \in HeadChars}

DigitStrings == {h \o Local(n) : h \in Heads, n \in 0..MaxLocal}

\* "+91-98765-43210" from "919876543210"
Between(d, a, b) == SelectSeq([i \in 1..Len(d) |-> IF a <= i /\ i <= b THEN d[i] ELSE "-"], KeepDigit)

Dashed(d) ==
    <<"+">> \o Between(d, 1, 2) \o <<"-">> \o Between(d, 3, 7) \o <<"-">>
            \o Between(d, 8, Len(d))

Decorated(d) ==
    { d,
      Dashed(d),
      <<" ">> \o d \o <<"\t">>,
      <<"a">> \o d,
      <<"u0663">> \o d,
      d \o <<"u0663">>,
      d \o Separator \o Local(10),
      d \o <<" ">> \o Separator \o <<"5">>,
      d \o Separator \o <<"5">> \o Separator \o Local(10),
      d \o <<":", ":", ":">> \o <<"5">> }

RawInputs ==
    {None, NaN, Number(12345)}
        \cup {Text(t) : t \in UNION {Decorated(d) : d \in DigitStrings}}

Pending == [kind |-> "pending"]

-----------------------------------------------------------------------------
(* Tables and files.                                                       *)

phone_column == "Phone 1 - Value"
website_column == "Website 1 - Value"
name_column == "Name"

\* "https://wa.me/91"
WaPrefix ==
    <<"h", "t", "t", "p", "s", ":", "/", "/", "w", "a", ".", "m", "e", "/",
      "9", "1">>

Range(s) == {s[i] : i \in 1..Len(s)}

\* A file that pd.read_csv cannot parse (an empty file among them).
Unreadable == [readable |-> FALSE, columns |-> <<>>, rows |-> <<>>]

Table(cols, rows) == [readable |-> TRUE, columns |-> cols, rows |-> rows]

\* Lines 96-100: the link of one row; old is the link the row held.
whatsapp_link_Append(raw, old) ==
    LET normalized_phone == clean_phone_number(raw).digits
    IN  IF normalized_phone # <<>> THEN old \o WaPrefix \o normalized_phone
        ELSE old

whatsapp_link_KeepOld(raw, old) ==
    LET normalized_phone == clean_phone_number(raw).digits
    IN  IF normalized_phone # <<>> THEN WaPrefix \o normalized_phone ELSE old

whatsapp_link(raw, old) ==
    LET normalized_phone == clean_phone_number(raw).digits
    IN  IF normalized_phone # <<>> THEN WaPrefix \o normalized_phone ELSE <<>>

\* Lines 93-105: the table with its website column replaced.
updated_table_PhoneToo(df) ==
    [df EXCEPT !.rows =
        [i \in 1..Len(df.rows) |->
            [df.rows[i] EXCEPT
                ![website_column] =
                    whatsapp_link(Text(df.rows[i][phone_column]), @),
                ![phone_column] =
                    clean_phone_number(Text(df.rows[i][phone_column])).digits]]]

updated_table(df) ==
    [df EXCEPT !.rows =
        [i \in 1..Len(df.rows) |->
            [df.rows[i] EXCEPT
                ![website_column] =
                    whatsapp_link(Text(df.rows[i][phone_column]), @)]]]

\* Lines 83-90: the first required column that is missing, "" when none is.
missing_column_WebsiteFirst(df) ==
    IF website_column \notin Range(df.columns) THEN website_column
    ELSE IF phone_column \notin Range(df.columns) THEN phone_column
    ELSE ""

missing_column(df) ==
    IF phone_column \notin Range(df.columns) THEN phone_column
    ELSE IF website_column \notin Range(df.columns) THEN website_column
    ELSE ""

\* What a to_csv that raises can leave at the path: the file as it was (the
\* open failed), an empty file, or the header and the first rows of the
\* new table (the write failed after the file was truncated).
FailedWriteLeaves(content) ==
    IF content.readable /\ missing_column(content) = ""
        THEN {content, Unreadable}
                \cup {[updated_table(content) EXCEPT
                            !.rows = SubSeq(@, 1, k)] :
                        k \in 0..(Len(content.rows) - 1)}
    ELSE {content}

\* Lines 65-112: process_csv_file on a file holding content.  writeOk says
\* whether to_csv succeeds, left is what it leaves when it does not.
process_csv_file(content, writeOk, left) ==
    IF ~content.readable
        THEN [outcome |-> "read_error", content |-> content]
    ELSE IF missing_column(content) # ""
        THEN [outcome |-> missing_column(content), content |-> content]
    ELSE IF writeOk
        THEN [outcome |-> "updated", content |-> updated_table(content)]
    ELSE [outcome |-> "write_error", content |-> left]

\* Lines 124-125: the loop goes on to the next file whatever the call did.
AfterFile_StopOnError(i, n, out) ==
    IF i = n \/ out # "updated" THEN "done" ELSE "loop"

AfterFile(i, n, out) == IF i = n THEN "done" ELSE "loop"

\* Line 116: glob.glob("*.csv")
glob(d) == [i \in 1..Len(d) |-> i]

-----------------------------------------------------------------------------
(* The files the model enumerates.                                         *)

PhoneSamples ==
    { Dashed(<<"9", "1">> \o Local(10)),
      <<>>,
      <<"1", "2", "3", "4", "5">> }

WebsiteSamples == {<<"x">>}

ColumnLists ==
    { <<name_column, phone_column, website_column>>,
      <<name_column, website_column>>,
      <<name_column, phone_column>>,
      <<name_column>> }

\* The name field of row i.
NameAt(i) == <<"n", DigitChar[(i % 10) + 1]>>

\* The rows a table with these columns can have at position i.
RowsAt(cols, i) ==
    LET vals(c) == IF c = phone_column THEN PhoneSamples
                   ELSE IF c = website_column THEN WebsiteSamples
                   ELSE {NameAt(i)}
    IN  {r \in [Range(cols) ->
                    PhoneSamples \cup WebsiteSamples \cup {NameAt(i)}] :
            \A c \in Range(cols) : r[c] \in vals(c)}

RECURSIVE RowLists(_, _)
RowLists(cols, n) ==
    IF n = 0 THEN {<<>>}
    ELSE {Append(rs, r) : rs \in RowLists(cols, n - 1), r \in RowsAt(cols, n)}

\* The contents a file of n rows can have.
Contents(n) ==
    (IF n = 0 THEN {Unreadable} ELSE {})
        \cup UNION {{Table(cols, rows) : rows \in RowLists(cols, n)} :
                        cols \in ColumnLists}

\* The lists of n files that hold at most budget rows together.
RECURSIVE Disks(_, _)
Disks(n, budget) ==
    IF n = 0 THEN {<<>>}
    ELSE UNION {{Append(d, c) : d \in Disks(n - 1, budget - r),
                                c \in Contents(r)} : r \in 0..budget}

\* The files on which a write can be tried at all.
Writable(d) ==
    {f \in 1..Len(d) : d[f].readable /\ missing_column(d[f]) = ""}

-----------------------------------------------------------------------------
(* The normaliser on its own: one call on an enumerated input.             *)

InitClean ==
    /\ raw_phone \in RawInputs
    /\ result = Pending
    /\ disk = <<>>
    /\ csv_files = <<>>
    /\ pc = "idle"
    /\ idx = 0
    /\ attempts = <<>>
    /\ outcome = <<>>
    /\ writeFails = {}
    /\ second = FALSE

Call ==
    /\ pc = "idle"
    /\ result = Pending
    /\ result' = clean_phone_number(raw_phone)
    /\ UNCHANGED <<raw_phone, batchVars>>

NextClean == Call

SpecClean == InitClean /\ [][NextClean]_vars

-----------------------------------------------------------------------------
(* The batch: main over the files of the directory, run once or twice.     *)

Init ==
    /\ raw_phone = None
    /\ result = Pending
    /\ \E n \in 0..MaxFiles : disk \in Disks(n, MaxRows)
    /\ writeFails \in SUBSET Writable(disk)
    /\ csv_files = <<>>
    /\ pc = "start"
    /\ idx = 0
    /\ attempts = [f \in 1..Len(disk) |-> 0]
    /\ outcome = [f \in 1..Len(disk) |-> "none"]
    /\ second = FALSE

\* Lines 114-121: main up to the loop.
Main ==
    /\ pc = "start"
    /\ csv_files' = glob(disk)
    /\ attempts' = [f \in 1..Len(disk) |-> 0]
    /\ IF csv_files' = <<>>
          THEN pc' = "done" /\ idx' = 0
          ELSE pc' = "loop" /\ idx' = 1
    /\ UNCHANGED <<raw_phone, result, disk, outcome, writeFails, second>>

\* Lines 124-125: one iteration of the loop, the whole of process_csv_file.
ProcessFile ==
    /\ pc = "loop"
    /\ LET csv_file == csv_files[idx]
       IN  \E left \in FailedWriteLeaves(disk[csv_file]) :
             LET r == process_csv_file(disk[csv_file],
                                       csv_file \notin writeFails, left)
             IN  /\ disk' = [disk EXCEPT ![csv_file] = r.content]
                 /\ outcome' = [outcome EXCEPT ![csv_file] = r.outcome]
                 /\ attempts' = [attempts EXCEPT ![csv_file] = @ + 1]
                 /\ pc' = AfterFile(idx, Len(csv_files), r.outcome)
    /\ idx' = idx + 1
    /\ UNCHANGED <<raw_phone, result, csv_files, writeFails, second>>

\* Lines 127-128: the program is started again in the same directory.
RunAgain ==
    /\ pc = "done"
    /\ ~second
    /\ second' = TRUE
    /\ pc' = "start"
    /\ UNCHANGED <<raw_phone, result, disk, csv_files, idx, attempts,
                   outcome, writeFails>>

Next == Main \/ ProcessFile \/ RunAgain

Spec == Init /\ [][Next]_vars

\* One run of main over files of at most one row each: the rows play no
\* part in the progress of the batch.  main runs to its end once started: a
\* sequential loop without suspension points.
InitOnce ==
    /\ raw_phone = None
    /\ result = Pending
    /\ \E n \in 0..MaxFiles :
            disk \in [1..n -> Contents(0) \cup Contents(1)]
    /\ writeFails \in SUBSET Writable(disk)
    /\ csv_files = <<>>
    /\ pc = "start"
    /\ idx = 0
    /\ attempts = [f \in 1..Len(disk) |-> 0]
    /\ outcome = [f \in 1..Len(disk) |-> "none"]
    /\ second = FALSE

NextOnce == Main \/ ProcessFile

FairSpec == InitOnce /\ [][NextOnce]_vars /\ WF_vars(NextOnce)

-----------------------------------------------------------------------------
(* Properties of the normaliser, checked under SpecClean.                  *)

\* A text value with a character that str.strip() keeps.
NonBlankText(raw) ==
    /\ raw.kind = "str"
    /\ \E i \in 1..Len(raw.text) : raw.text[i] \notin Whitespace

\* The text before the first occurrence of the separator.
BeforeSeparator(t) ==
    LET occ == Occurrences(t, Separator)
        k   == CHOOSE i \in occ : \A j \in occ : i <= j
    IN  [i \in 1..(k - 1) |-> t[i]]

C4_AsciiDigitsOnly ==
    (result # Pending /\ NonBlankText(raw_phone)) =>
        \A i \in 1..Len(result.digits) : result.digits[i] \in AsciiDigits

\* C5: when the text contains the separator, the result is that of the
\* text before its first occurrence alone; later segments add nothing, even
\* when the first has fewer than 10 digits or none.
C5_FirstSegmentOnly ==
    ( /\ result # Pending
      /\ NonBlankText(raw_phone)
      /\ Contains(raw_phone.text, Separator) ) =>
        LET first == BeforeSeparator(raw_phone.text)
        IN  /\ NonBlankText(Text(first)) =>
                    result = clean_phone_number(Text(first))
            /\ (~NonBlankText(Text(first))) =>
                    result = [digits |-> <<>>, note |-> NoteLength(0)]

\* " ::: 9876543210": the first segment is empty, the second a full number.
C5_Witness ==
    /\ raw_phone = Text(Separator \o Local(10))
    /\ result # Pending
    /\ result.digits = <<>>

-----------------------------------------------------------------------------
(* Properties of process_csv_file and main, checked under Spec and         *)
(* FairSpec.                                                               *)

Files == 1..Len(disk)

HasBoth(content) ==
    /\ content.readable
    /\ phone_column \in Range(content.columns)
    /\ website_column \in Range(content.columns)

\* The link a row with this phone value is to carry.
ExpectedLink(phone) ==
    LET r == clean_phone_number(Text(phone))
    IN  IF r.digits = <<>> THEN <<>> ELSE WaPrefix \o r.digits

LinksFollowPhones(content) ==
    \A i \in 1..Len(content.rows) :
        content.rows[i][website_column]
            = ExpectedLink(content.rows[i][phone_column])

\* This step is a call of process_csv_file on file f.
Processed(f) == attempts'[f] = attempts[f] + 1

SamplePhone == Dashed(<<"9", "1">> \o Local(10))

\* "https://wa.me/919876543210"
SampleLink ==
    <<"h", "t", "t", "p", "s", ":", "/", "/", "w", "a", ".", "m", "e", "/",
      "9", "1", "9", "8", "7", "6", "5", "4", "3", "2", "1", "0">>

\* C3: every non-empty link written into the website column is
\* "https://wa.me/91" followed by exactly 10 digits.
C3_TenDigitLinks ==
    \A f \in Files :
        outcome[f] = "updated" =>
            \A i \in 1..Len(disk[f].rows) :
                LET link == disk[f].rows[i][website_column]
                IN  \/ link = <<>>
                    \/ /\ Len(link) = Len(WaPrefix) + 10
                       /\ SubSeq(link, 1, Len(WaPrefix)) = WaPrefix
                       /\ \A j \in (Len(WaPrefix) + 1)..Len(link) :
                            link[j] \in AsciiDigits

\* C6: after a successful pass every row's website field is
\* "https://wa.me/91" + digits when its phone value normalises to non-empty
\* digits and empty otherwise, whatever the row held before and whatever the
\* other rows hold; phones ["+91-98765-43210", ""] give links
\* ["https://wa.me/919876543210", ""].
C6_LinkFromPhoneOnly ==
    \A f \in Files :
        outcome[f] = "updated" =>
            /\ LinksFollowPhones(disk[f])
            /\ ( /\ Len(disk[f].rows) = 2
                 /\ disk[f].rows[1][phone_column] = SamplePhone
                 /\ disk[f].rows[2][phone_column] = <<>> )
                    => /\ disk[f].rows[1][website_column] = SampleLink
                       /\ disk[f].rows[2][website_column] = <<>>

C6_Witness ==
    \E f \in Files :
        /\ outcome[f] = "updated"
        /\ Len(disk[f].rows) = 2
        /\ disk[f].rows[1][phone_column] = SamplePhone
        /\ disk[f].rows[2][phone_column] = <<>>
        /\ disk[f].rows[1][website_column] = SampleLink
        /\ disk[f].rows[2][website_column] = <<>>

\* C7: a table that lacks a required column is abandoned with "Phone 1 -
\* Value" reported when that one is missing (also when both are) and
\* "Website 1 - Value" otherwise, and no file is written by the call.
C7_MissingColumnFailFast ==
    [][ \A f \in Files :
          (Processed(f) /\ disk[f].readable /\ ~HasBoth(disk[f])) =>
              /\ disk' = disk
              /\ outcome'[f] =
                    IF phone_column \notin Range(disk[f].columns)
                        THEN phone_column ELSE website_column ]_vars

\* A file with rows and neither column was skipped, the phone column named.
C7_Witness ==
    \E f \in Files :
        /\ outcome[f] = phone_column
        /\ disk[f].columns = <<name_column>>
        /\ Len(disk[f].rows) >= 1

\* C8: the table written back has the rows, in their order, and the
\* columns of the table read, and every field outside the website column is
\* as it was.
C8_OnlyWebsiteChanges ==
    [][ \A f \in Files :
          (Processed(f) /\ outcome'[f] = "updated") =>
              /\ disk'[f].readable
              /\ disk'[f].columns = disk[f].columns
              /\ Len(disk'[f].rows) = Len(disk[f].rows)
              /\ \A i \in 1..Len(disk[f].rows) :
                    /\ DOMAIN disk'[f].rows[i] = DOMAIN disk[f].rows[i]
                    /\ \A c \in DOMAIN disk[f].rows[i] \ {website_column} :
                            disk'[f].rows[i][c] = disk[f].rows[i][c]
              /\ \A g \in Files \ {f} : disk'[g] = disk[g] ]_vars

\* A two-row table was rewritten; the phone field keeps its raw form.
C8_Witness ==
    \E f \in Files :
        /\ outcome[f] = "updated"
        /\ Len(disk[f].rows) = 2
        /\ disk[f].rows[1][phone_column] = SamplePhone
        /\ disk[f].rows[1][website_column] = SampleLink
        /\ disk[f].rows[2][name_column] = NameAt(2)

\* C9: no failure aborts the batch: once started main reaches its end, by
\* then every discovered file has been attempted exactly once, and every
\* file that reads, has both columns and writes is updated.
C9_BatchNeverAborted ==
    /\ [](\A f \in Files : attempts[f] <= 1)
    /\ [](pc = "done" =>
            \A f \in Files :
                /\ attempts[f] = 1
                /\ (HasBoth(disk[f]) /\ f \notin writeFails) =>
                        (outcome[f] = "updated" /\ LinksFollowPhones(disk[f])))
    /\ (pc = "start") ~> (pc = "done")

\* Two files: the first could not be read, the second was updated.
C9_Witness ==
    /\ pc = "done"
    /\ Len(disk) = 2
    /\ outcome[1] = "read_error"
    /\ outcome[2] = "updated"
    /\ Len(disk[2].rows) >= 1

\* Strings of exactly 10 digits, some starting "0" or "91".
TenDigitStrings == {h \o Local(10 - Len(h)) : h \in Heads}

\* C10: a pass over a table that a pass has already written leaves it
\* exactly as it is, and a string of exactly 10 digits is normalised to
\* itself with an empty note.
C10_SecondPassStable ==
    [][ \A f \in Files :
          ( /\ Processed(f)
            /\ outcome[f] = "updated"
            /\ outcome'[f] = "updated" ) =>
              /\ disk'[f] = disk[f]
              /\ \A d \in TenDigitStrings :
                    clean_phone_number(Text(d)) = [digits |-> d, note |-> ""]
      ]_vars

\* The second run has rewritten a two-row table the first run had written.
C10_Witness ==
    /\ second
    /\ \E f \in Files :
        /\ attempts[f] = 1
        /\ outcome[f] = "updated"
        /\ Len(disk[f].rows) = 2
        /\ disk[f].rows[1][website_column] = SampleLink

====
